---- MODULE Spec2Model ----
(***************************************************************************)
(* A model of ChessEngine (src/src/lib/chess-engine.ts): the game session  *)
(* (makeMove, undoMove, reset, loadFen, getState), the search (getBestMove,*)
(* minimax, evaluateBoard) and the rules engine it delegates to (chess.js: *)
(* move generation, make/undo, status queries, position export).           *)
(*                                                                         *)
(* Squares are numbered row * 8 + col with row 0 = rank 8 and col 0 =      *)
(* file a, the indexing of game.board() that evaluateBoard reads.          *)
(***************************************************************************)
EXTENDS Integers, Sequences, FiniteSets, TLC

(* ---------------------------------------------------------------- bounds *)

\* Longest move history of a session that began with a loaded position.
MaxPly == 2

\* Longest move history of a session that began with the standard start.
MaxOpeningPly == 1

\* Longest move history a session of SearchSpec grows to.
MaxSearchPly == 1

\* Seeds of the random source that shuffleArray draws from: 0..MaxSeed.
MaxSeed == 1

(* ------------------------------------------------------------- the board *)

Squares == 0..63

Sq(r, c) == r * 8 + c

Row(s) == s \div 8

Col(s) == s % 8

\* The square of file f (1 = a .. 8 = h) and rank r (1..8), as squareToCoords.
At(f, r) == Sq(8 - r, f - 1)

OnBoard(r, c) == r >= 0 /\ r <= 7 /\ c >= 0 /\ c <= 7

NoSquare == -1

None == "-"

NoPiece == [type |-> None, color |-> None]

Pc(t, c) == [type |-> t, color |-> c]

Colors == {"w", "b"}

swapColor(c) == IF c = "w" THEN "b" ELSE "w"

\* PIECE_OFFSETS of the rules engine as (row, col) steps; the first four queen
\* directions are the diagonal ones and the last four the straight ones.
DiagDirs == << <<-1, -1>>, <<-1, 1>>, <<1, 1>>, <<1, -1>> >>

StraightDirs == << <<-1, 0>>, <<0, 1>>, <<1, 0>>, <<0, -1>> >>

AllDirs == << <<-1, -1>>, <<-1, 0>>, <<-1, 1>>, <<0, 1>>, <<1, 1>>, <<1, 0>>, <<1, -1>>, <<0, -1>> >>

KnightSteps == << <<-1, -2>>, <<-2, -1>>, <<-2, 1>>, <<-1, 2>>, <<1, 2>>, <<2, 1>>, <<2, -1>>, <<1, -2>> >>

RECURSIVE RayFrom(_, _, _, _)
RayFrom(r, c, dr, dc) ==
  IF OnBoard(r + dr, c + dc)
  THEN <<Sq(r + dr, c + dc)>> \o RayFrom(r + dr, c + dc, dr, dc)
  ELSE <<>>

\* Rays[s][d]: the squares met leaving s in direction AllDirs[d], nearest first.
Rays == [s \in Squares |-> [d \in 1..8 |-> RayFrom(Row(s), Col(s), AllDirs[d][1], AllDirs[d][2])]]

StepTargets(s, steps) ==
  LET ok == SelectSeq(steps, LAMBDA st: OnBoard(Row(s) + st[1], Col(s) + st[2]))
  IN [i \in 1..Len(ok) |-> Sq(Row(s) + ok[i][1], Col(s) + ok[i][2])]

KnightTargets == [s \in Squares |-> StepTargets(s, KnightSteps)]

KingTargets == [s \in Squares |-> StepTargets(s, AllDirs)]

IsDiag(d) == d \in {1, 3, 5, 7}

\* The directions of a sliding piece, in the rules engine's order.
SlideDirs(t) ==
  IF t = "b" THEN <<1, 3, 5, 7>>
  ELSE IF t = "r" THEN <<2, 4, 6, 8>>
  ELSE <<1, 2, 3, 4, 5, 6, 7, 8>>

\* Index in ray of the first occupied square, Len(ray) + 1 when there is none.
RECURSIVE FirstBlock(_, _, _)
FirstBlock(board, ray, i) ==
  IF i > Len(ray) THEN i
  ELSE IF board[ray[i]] # NoPiece THEN i
  ELSE FirstBlock(board, ray, i + 1)

\* Is square s attacked by a piece of colour by ?
Attacked(board, s, by) ==
  \/ \E i \in 1..Len(KnightTargets[s]) : board[KnightTargets[s][i]] = Pc("n", by)
  \/ \E i \in 1..Len(KingTargets[s]) : board[KingTargets[s][i]] = Pc("k", by)
  \/ LET pr == IF by = "w" THEN Row(s) + 1 ELSE Row(s) - 1
     IN \E dc \in {-1, 1} :
          OnBoard(pr, Col(s) + dc) /\ board[Sq(pr, Col(s) + dc)] = Pc("p", by)
  \/ \E d \in 1..8 :
       LET ray == Rays[s][d]
           i == FirstBlock(board, ray, 1)
       IN /\ i <= Len(ray)
          /\ board[ray[i]].color = by
          /\ board[ray[i]].type \in (IF IsDiag(d) THEN {"b", "q"} ELSE {"r", "q"})

(* ------------------------------------------------------- move generation *)

Mv(c, f, t, p, cap, promo, fl) ==
  [color |-> c, from |-> f, to |-> t, piece |-> p, captured |-> cap,
   promotion |-> promo, flags |-> fl]

Promotions == <<"n", "b", "r", "q">>

\* A pawn move, expanded into the four promotions on the last rank.
PawnMove(us, f, t, cap, fl) ==
  IF Row(t) = 0 \/ Row(t) = 7
  THEN [i \in 1..4 |-> Mv(us, f, t, "p", cap, Promotions[i], IF fl = "c" THEN "cp" ELSE "np")]
  ELSE <<Mv(us, f, t, "p", cap, None, fl)>>

PawnMoves(g, s) ==
  LET us == g.turn
      fwd == IF us = "w" THEN -1 ELSE 1
      home == IF us = "w" THEN 6 ELSE 1
      r == Row(s)
      c == Col(s)
      one == Sq(r + fwd, c)
      push == IF OnBoard(r + fwd, c) /\ g.board[one] = NoPiece
              THEN PawnMove(us, s, one, None, "n")
                   \o (IF r = home /\ g.board[Sq(r + 2 * fwd, c)] = NoPiece
                       THEN <<Mv(us, s, Sq(r + 2 * fwd, c), "p", None, None, "b")>>
                       ELSE <<>>)
              ELSE <<>>
      Take(dc) ==
        IF ~OnBoard(r + fwd, c + dc) THEN <<>>
        ELSE LET t == Sq(r + fwd, c + dc)
             IN IF g.board[t].color = swapColor(us)
                THEN PawnMove(us, s, t, g.board[t].type, "c")
                ELSE IF t = g.epSquare
                THEN <<Mv(us, s, t, "p", "p", None, "e")>>
                ELSE <<>>
  IN push \o Take(-1) \o Take(1)

StepMoves(g, s, targets) ==
  LET us == g.turn
      p == g.board[s].type
      free == SelectSeq(targets, LAMBDA t: g.board[t].color # us)
  IN [i \in 1..Len(free) |->
        IF g.board[free[i]] = NoPiece
        THEN Mv(us, s, free[i], p, None, None, "n")
        ELSE Mv(us, s, free[i], p, g.board[free[i]].type, None, "c")]

RayMoves(g, s, d) ==
  LET us == g.turn
      p == g.board[s].type
      ray == Rays[s][d]
      i == FirstBlock(g.board, ray, 1)
      quiet == [j \in 1..(i - 1) |-> Mv(us, s, ray[j], p, None, None, "n")]
  IN IF i <= Len(ray) /\ g.board[ray[i]].color # us
     THEN Append(quiet, Mv(us, s, ray[i], p, g.board[ray[i]].type, None, "c"))
     ELSE quiet

RECURSIVE SlideMoves(_, _, _, _)
SlideMoves(g, s, dirs, k) ==
  IF k > Len(dirs) THEN <<>>
  ELSE RayMoves(g, s, dirs[k]) \o SlideMoves(g, s, dirs, k + 1)

\* The moves of the piece on s, before the own king's safety is looked at.
PieceMoves(g, s) ==
  LET p == g.board[s]
  IN IF p.color # g.turn THEN <<>>
     ELSE IF p.type = "p" THEN PawnMoves(g, s)
     ELSE IF p.type = "n" THEN StepMoves(g, s, KnightTargets[s])
     ELSE IF p.type = "k" THEN StepMoves(g, s, KingTargets[s])
     ELSE SlideMoves(g, s, SlideDirs(p.type), 1)

\* Castling: the squares between are empty, and the king's square, the square
\* it crosses and the square it lands on are not attacked. A castling right
\* is only ever held with the king on its home square (file e).
CastleMoves(g) ==
  LET us == g.turn
      them == swapColor(us)
      k == g.kings[us]
      b == g.board
      kside == IF /\ "k" \in g.castling[us]
                  /\ Col(k) = 4
                  /\ b[k + 1] = NoPiece /\ b[k + 2] = NoPiece
                  /\ ~Attacked(b, k, them)
                  /\ ~Attacked(b, k + 1, them)
                  /\ ~Attacked(b, k + 2, them)
               THEN <<Mv(us, k, k + 2, "k", None, None, "k")>>
               ELSE <<>>
      qside == IF /\ "q" \in g.castling[us]
                  /\ Col(k) = 4
                  /\ b[k - 1] = NoPiece /\ b[k - 2] = NoPiece /\ b[k - 3] = NoPiece
                  /\ ~Attacked(b, k, them)
                  /\ ~Attacked(b, k - 1, them)
                  /\ ~Attacked(b, k - 2, them)
               THEN <<Mv(us, k, k - 2, "k", None, None, "q")>>
               ELSE <<>>
  IN kside \o qside

\* The squares in generation order: a8 .. h8, then rank by rank to h1.
SquareSeq == [i \in 1..64 |-> i - 1]

\* The generated moves of the pieces on squares[i..], in that order.
RECURSIVE PseudoFrom(_, _, _)
PseudoFrom(g, squares, i) ==
  IF i > Len(squares) THEN <<>>
  ELSE PieceMoves(g, squares[i]) \o PseudoFrom(g, squares, i + 1)

\* Every generated move of the side to move, castling last.
PseudoMoves(g) ==
  PseudoFrom(g, SelectSeq(SquareSeq, LAMBDA s: g.board[s].color = g.turn), 1)
  \o CastleMoves(g)

\* The board after move m (the board part of the rules engine's make-move).
BoardAfter(board, m) ==
  LET moved == IF m.promotion # None THEN Pc(m.promotion, m.color) ELSE board[m.from]
      epVictim == IF m.color = "b" THEN m.to - 8 ELSE m.to + 8
      b1 == [board EXCEPT ![m.to] = moved, ![m.from] = NoPiece]
      b2 == IF m.flags = "e" THEN [b1 EXCEPT ![epVictim] = NoPiece] ELSE b1
  IN IF m.flags = "k"
     THEN [b2 EXCEPT ![m.to - 1] = b2[m.to + 1], ![m.to + 1] = NoPiece]
     ELSE IF m.flags = "q"
     THEN [b2 EXCEPT ![m.to + 1] = b2[m.to - 2], ![m.to - 2] = NoPiece]
     ELSE b2

\* A generated move is legal when it does not leave the mover's king attacked.
LeavesKingSafe(g, m) ==
  LET k == IF m.piece = "k" THEN m.to ELSE g.kings[m.color]
  IN ~Attacked(BoardAfter(g.board, m), k, swapColor(m.color))

\* game.moves({ verbose: true }): the legal moves, in generation order.
LegalMoves(g) ==
  SelectSeq(PseudoMoves(g), LAMBDA m: LeavesKingSafe(g, m))

(* ------------------------------------------------------ make and unmake *)

HistoryEntry(g, m) ==
  [move |-> m, kings |-> g.kings, turn |-> g.turn, castling |-> g.castling,
   epSquare |-> g.epSquare, halfMoves |-> g.halfMoves, moveNumber |-> g.moveNumber]

\* The corner a castling right belongs to.
RookFlag(c, s) ==
  IF s = (IF c = "w" THEN At(8, 1) ELSE At(8, 8)) THEN "k"
  ELSE IF s = (IF c = "w" THEN At(1, 1) ELSE At(1, 8)) THEN "q"
  ELSE None

\* The rules engine's make-move: pushes the undo entry, moves the piece and
\* updates kings, castling rights, en-passant square, clocks and turn.
MakeMoveG(g, m) ==
  LET us == g.turn
      them == swapColor(us)
      kingMoved == m.piece = "k"
      c1 == IF kingMoved THEN [g.castling EXCEPT ![us] = {}] ELSE g.castling
      c2 == [c1 EXCEPT ![us] = @ \ {RookFlag(us, m.from)}]
      c3 == [c2 EXCEPT ![them] = @ \ {RookFlag(them, m.to)}]
  IN [board |-> BoardAfter(g.board, m),
      kings |-> IF kingMoved THEN [g.kings EXCEPT ![us] = m.to] ELSE g.kings,
      turn |-> them,
      castling |-> c3,
      epSquare |-> IF m.flags = "b"
                   THEN (IF us = "b" THEN m.to - 8 ELSE m.to + 8)
                   ELSE NoSquare,
      halfMoves |-> IF m.piece = "p" \/ m.captured # None THEN 0 ELSE g.halfMoves + 1,
      moveNumber |-> IF us = "b" THEN g.moveNumber + 1 ELSE g.moveNumber,
      history |-> Append(g.history, HistoryEntry(g, m)),
      header |-> g.header]

\* The board with move m taken back.
BoardBefore(board, m) ==
  LET them == swapColor(m.color)
      epVictim == IF m.color = "b" THEN m.to - 8 ELSE m.to + 8
      b1 == [board EXCEPT ![m.from] = Pc(m.piece, m.color), ![m.to] = NoPiece]
      b2 == IF m.captured = None THEN b1
            ELSE IF m.flags = "e" THEN [b1 EXCEPT ![epVictim] = Pc("p", them)]
            ELSE [b1 EXCEPT ![m.to] = Pc(m.captured, them)]
  IN IF m.flags = "k"
     THEN [b2 EXCEPT ![m.to + 1] = b2[m.to - 1], ![m.to - 1] = NoPiece]
     ELSE IF m.flags = "q"
     THEN [b2 EXCEPT ![m.to - 2] = b2[m.to + 1], ![m.to + 1] = NoPiece]
     ELSE b2

\* The rules engine's unmake of the last move; the history is not empty.
UndoG(g) ==
  LET n == Len(g.history)
      old == g.history[n]
  IN [board |-> BoardBefore(g.board, old.move),
      kings |-> old.kings,
      turn |-> old.turn,
      castling |-> old.castling,
      epSquare |-> old.epSquare,
      halfMoves |-> old.halfMoves,
      moveNumber |-> old.moveNumber,
      history |-> SubSeq(g.history, 1, n - 1),
      header |-> g.header]

(* ------------------------------------------------------- status queries *)

InCheck(g) == Attacked(g.board, g.kings[g.turn], swapColor(g.turn))

\* Light or dark: the colour of square s.
SquareShade(s) == (Row(s) + Col(s)) % 2

InsufficientMaterial(g) ==
  LET occ == {s \in Squares : g.board[s] # NoPiece}
      bishops == {s \in occ : g.board[s].type = "b"}
      knights == {s \in occ : g.board[s].type = "n"}
      n == Cardinality(occ)
  IN \/ n = 2
     \/ n = 3 /\ Cardinality(bishops) + Cardinality(knights) = 1
     \/ /\ n = Cardinality(bishops) + 2
        /\ \E sh \in {0, 1} : \A s \in bishops : SquareShade(s) = sh

\* What a repetition compares: placement, side to move, castling rights and
\* en-passant square.
PositionKey(g) == <<g.board, g.turn, g.castling, g.epSquare>>

\* The number of positions of the game so far, the present one included, that
\* equal the present one.
RECURSIVE CountBack(_, _)
CountBack(g, key) ==
  (IF PositionKey(g) = key THEN 1 ELSE 0)
  + (IF g.history = <<>> THEN 0 ELSE CountBack(UndoG(g), key))

\* Threefold repetition; a position cannot come a third time in fewer than
\* eight plies.
IsThreefoldRepetition(g) ==
  Len(g.history) >= 8 /\ CountBack(g, PositionKey(g)) >= 3

\* game.moves().length === 0: no generated move is legal.
NoMoves(g) ==
  LET ps == PseudoMoves(g)
  IN \A i \in 1..Len(ps) : ~LeavesKingSafe(g, ps[i])

IsCheckmate(g) == InCheck(g) /\ NoMoves(g)

IsStalemate(g) == ~InCheck(g) /\ NoMoves(g)

IsDraw(g) ==
  \/ g.halfMoves >= 100
  \/ IsStalemate(g)
  \/ InsufficientMaterial(g)
  \/ IsThreefoldRepetition(g)

IsGameOver(g) == IsCheckmate(g) \/ IsStalemate(g) \/ IsDraw(g)

(* --------------------------------------------- serialized positions (FEN) *)

\* game.fen(): the six fields of the serialized position.
Fen(g) ==
  [board |-> g.board, turn |-> g.turn, castling |-> g.castling,
   epSquare |-> g.epSquare, halfMoves |-> g.halfMoves, moveNumber |-> g.moveNumber]

BackRank == <<"r", "n", "b", "q", "k", "b", "n", "r">>

StartBoard ==
  [s \in Squares |->
     IF Row(s) = 0 THEN Pc(BackRank[Col(s) + 1], "b")
     ELSE IF Row(s) = 1 THEN Pc("p", "b")
     ELSE IF Row(s) = 6 THEN Pc("p", "w")
     ELSE IF Row(s) = 7 THEN Pc(BackRank[Col(s) + 1], "w")
     ELSE NoPiece]

BothSides == [c \in Colors |-> {"k", "q"}]

NoCastling == [c \in Colors |-> {}]

\* DEFAULT_POSITION of the rules engine.
StartFen ==
  [board |-> StartBoard, turn |-> "w", castling |-> BothSides,
   epSquare |-> NoSquare, halfMoves |-> 0, moveNumber |-> 1]

\* The rules engine's validation of a serialized position.
ValidFen(f) ==
  /\ f.turn \in Colors
  /\ f.halfMoves >= 0
  /\ f.moveNumber >= 1
  /\ \/ f.epSquare = NoSquare
     \/ f.epSquare \in Squares /\ Row(f.epSquare) = (IF f.turn = "w" THEN 2 ELSE 5)
  /\ \A c \in Colors : Cardinality({s \in Squares : f.board[s] = Pc("k", c)}) = 1
  /\ \A s \in Squares : f.board[s].type = "p" => Row(s) \notin {0, 7}

\* The game a valid serialized position loads to: the history is cleared, and
\* the header records a set-up position when it is not the standard start.
GameOfFen(f) ==
  [board |-> f.board,
   kings |-> [c \in Colors |-> CHOOSE s \in Squares : f.board[s] = Pc("k", c)],
   turn |-> f.turn,
   castling |-> f.castling,
   epSquare |-> f.epSquare,
   halfMoves |-> f.halfMoves,
   moveNumber |-> f.moveNumber,
   history |-> <<>>,
   header |-> [setUp |-> f # StartFen, fen |-> f]]

\* new Chess(): the standard starting position.
NewGame == GameOfFen(StartFen)

\* The placement given by a set of <<square, type, colour>>.
Place(pl) ==
  [s \in Squares |->
     IF \E p \in pl : p[1] = s
     THEN LET p == CHOOSE q \in pl : q[1] = s IN Pc(p[2], p[3])
     ELSE NoPiece]

Position(pl, turn, ep, half, num) ==
  [board |-> Place(pl), turn |-> turn, castling |-> NoCastling,
   epSquare |-> ep, halfMoves |-> half, moveNumber |-> num]

(* ------------------------------------------------------ the chess engine *)

NullMove == Mv(None, NoSquare, NoSquare, None, None, None, None)

\* game.move({ from, to, promotion }), ms being the legal moves of g: the
\* legal move with these squares (and this promotion, when it promotes) is
\* made; with none, the call throws and the game is untouched.
GameMove(g, ms, from, to, promotion) ==
  LET hits == SelectSeq(ms,
                LAMBDA m: /\ m.from = from
                          /\ m.to = to
                          /\ (m.promotion = None \/ m.promotion = promotion))
  IN IF hits = <<>>
     THEN [threw |-> TRUE, move |-> NullMove, game |-> g]
     ELSE [threw |-> FALSE, move |-> hits[1], game |-> MakeMoveG(g, hits[1])]

\* game.undo(): the last move is taken back and returned, null with no history.
GameUndo(g) ==
  IF g.history = <<>>
  THEN [move |-> NullMove, game |-> g]
  ELSE [move |-> g.history[Len(g.history)].move, game |-> UndoG(g)]

\* game.history({ verbose: true })
History(g) == [i \in 1..Len(g.history) |-> g.history[i].move]

\* A faulty makeMove: the catch block takes a move back before returning null.
makeMoveRollsBack(g, ms, from, to, promotion) ==
  LET r == GameMove(g, ms, from, to, IF promotion = None THEN "q" ELSE promotion)
  IN IF r.threw THEN [move |-> NullMove, game |-> GameUndo(r.game).game]
     ELSE [move |-> r.move, game |-> r.game]

\* ChessEngine.makeMove (ms: the legal moves of g): the promotion defaults to
\* a queen; a throw of the rules engine is caught and null returned.
makeMove(g, ms, from, to, promotion) ==
  LET r == GameMove(g, ms, from, to, IF promotion = None THEN "q" ELSE promotion)
  IN IF r.threw THEN [move |-> NullMove, game |-> r.game]
     ELSE [move |-> r.move, game |-> r.game]

\* A faulty undoMove: with nothing to take back, the game is set up anew.
undoMoveResetsWhenEmpty(g) ==
  IF g.history = <<>> THEN [move |-> NullMove, game |-> NewGame] ELSE GameUndo(g)

\* A faulty undoMove: the move taken back is not returned.
undoMoveNoReturn(g) == [move |-> NullMove, game |-> GameUndo(g).game]

\* A faulty undoMove: two moves are taken back, as after a computer's reply.
undoMoveTwice(g) ==
  LET r == GameUndo(g)
  IN [move |-> r.move, game |-> GameUndo(r.game).game]

\* ChessEngine.undoMove
undoMove(g) == GameUndo(g)

\* A faulty reset: the session goes back to the position it started from,
\* which after a load is the loaded one.
resetToSetUp(g) == IF g.header.setUp THEN GameOfFen(g.header.fen) ELSE NewGame

\* A faulty reset: the starting position is set up under the old history.
resetKeepsHistory(g) == [NewGame EXCEPT !.history = g.history]

\* ChessEngine.reset
reset(g) == NewGame

\* A faulty loadFen: the catch block sets the game up anew before returning
\* false.
loadFenResetsOnThrow(g, f) ==
  IF ValidFen(f) THEN [ok |-> TRUE, game |-> GameOfFen(f)]
  ELSE [ok |-> FALSE, game |-> NewGame]

\* A faulty loadFen: the position is replaced under the old history.
loadFenKeepsHistory(g, f) ==
  IF ValidFen(f) THEN [ok |-> TRUE, game |-> [GameOfFen(f) EXCEPT !.history = g.history]]
  ELSE [ok |-> FALSE, game |-> g]

\* ChessEngine.loadFen: false, and the game untouched, when the load throws.
loadFen(g, f) ==
  IF ValidFen(f) THEN [ok |-> TRUE, game |-> GameOfFen(f)]
  ELSE [ok |-> FALSE, game |-> g]

\* A faulty getCapturedPieces: the else is missing, so a capture by White is
\* pushed to both lists.
RECURSIVE getCapturedPiecesNoElse(_, _, _)
getCapturedPiecesNoElse(history, i, captured) ==
  IF i > Len(history) THEN captured
  ELSE LET move == history[i]
       IN IF move.captured # None
          THEN IF move.color = "w"
               THEN getCapturedPiecesNoElse(history, i + 1,
                      [captured EXCEPT !.w = Append(@, move.captured),
                                       !.b = Append(@, move.captured)])
               ELSE getCapturedPiecesNoElse(history, i + 1,
                      [captured EXCEPT !.b = Append(@, move.captured)])
          ELSE getCapturedPiecesNoElse(history, i + 1, captured)

\* A faulty getCapturedPieces: a captured piece goes to the list of its own
\* colour, the mover's opponent.
RECURSIVE getCapturedPiecesByVictim(_, _, _)
getCapturedPiecesByVictim(history, i, captured) ==
  IF i > Len(history) THEN captured
  ELSE LET move == history[i]
       IN IF move.captured # None
          THEN IF move.color = "w"
               THEN getCapturedPiecesByVictim(history, i + 1, [captured EXCEPT !.b = Append(@, move.captured)])
               ELSE getCapturedPiecesByVictim(history, i + 1, [captured EXCEPT !.w = Append(@, move.captured)])
          ELSE getCapturedPiecesByVictim(history, i + 1, captured)

\* ChessEngine.getCapturedPieces: one pass over the history.
RECURSIVE getCapturedPieces(_, _, _)
getCapturedPieces(history, i, captured) ==
  IF i > Len(history) THEN captured
  ELSE LET move == history[i]
       IN IF move.captured # None
          THEN IF move.color = "w"
               THEN getCapturedPieces(history, i + 1, [captured EXCEPT !.w = Append(@, move.captured)])
               ELSE getCapturedPieces(history, i + 1, [captured EXCEPT !.b = Append(@, move.captured)])
          ELSE getCapturedPieces(history, i + 1, captured)

\* A faulty getState: isGameOver is taken from the two no-move endings only.
getStateOverWithoutDraws(g) ==
  [fen |-> Fen(g),
   turn |-> g.turn,
   isCheck |-> InCheck(g),
   isCheckmate |-> IsCheckmate(g),
   isStalemate |-> IsStalemate(g),
   isDraw |-> IsDraw(g),
   isGameOver |-> IsCheckmate(g) \/ IsStalemate(g),
   moveHistory |-> History(g),
   capturedPieces |-> getCapturedPieces(History(g), 1, [w |-> <<>>, b |-> <<>>])]

\* ChessEngine.getState
getState(g) ==
  LET history == History(g)
  IN [fen |-> Fen(g),
      turn |-> g.turn,
      isCheck |-> InCheck(g),
      isCheckmate |-> IsCheckmate(g),
      isStalemate |-> IsStalemate(g),
      isDraw |-> IsDraw(g),
      isGameOver |-> IsGameOver(g),
      moveHistory |-> history,
      capturedPieces |-> getCapturedPieces(history, 1, [w |-> <<>>, b |-> <<>>])]

(* ------------------------------------------------------------ the search *)

\* JavaScript's Infinity: the model only compares it, and it exceeds every
\* sum of material and bonuses.
Infinity == 1000000

\* A faulty PIECE_VALUES: the values of bishop and rook have changed places.
PIECE_VALUESSwapped(t) ==
  CASE t = "p" -> 100
    [] t = "n" -> 320
    [] t = "b" -> 500
    [] t = "r" -> 330
    [] t = "q" -> 900
    [] t = "k" -> 20000

PIECE_VALUES(t) ==
  CASE t = "p" -> 100
    [] t = "n" -> 320
    [] t = "b" -> 330
    [] t = "r" -> 500
    [] t = "q" -> 900
    [] t = "k" -> 20000

PAWN_TABLE ==
  << <<0, 0, 0, 0, 0, 0, 0, 0>>,
     <<50, 50, 50, 50, 50, 50, 50, 50>>,
     <<10, 10, 20, 30, 30, 20, 10, 10>>,
     <<5, 5, 10, 25, 25, 10, 5, 5>>,
     <<0, 0, 0, 20, 20, 0, 0, 0>>,
     <<5, -5, -10, 0, 0, -10, -5, 5>>,
     <<5, 10, 10, -20, -20, 10, 10, 5>>,
     <<0, 0, 0, 0, 0, 0, 0, 0>> >>

KNIGHT_TABLE ==
  << <<-50, -40, -30, -30, -30, -30, -40, -50>>,
     <<-40, -20, 0, 0, 0, 0, -20, -40>>,
     <<-30, 0, 10, 15, 15, 10, 0, -30>>,
     <<-30, 5, 15, 20, 20, 15, 5, -30>>,
     <<-30, 0, 15, 20, 20, 15, 0, -30>>,
     <<-30, 5, 10, 15, 15, 10, 5, -30>>,
     <<-40, -20, 0, 5, 5, 0, -20, -40>>,
     <<-50, -40, -30, -30, -30, -30, -40, -50>> >>

\* A faulty SquareScore: Black's pawns and knights read the tables unmirrored.
SquareScoreUnmirrored(board, row, col) ==
  LET piece == board[Sq(row, col)]
      bonus == IF piece.type = "p" THEN PAWN_TABLE[row + 1][col + 1]
               ELSE IF piece.type = "n" THEN KNIGHT_TABLE[row + 1][col + 1]
               ELSE 0
      value == PIECE_VALUES(piece.type) + bonus
  IN IF piece = NoPiece THEN 0
     ELSE IF piece.color = "w" THEN value ELSE -value

\* The signed contribution of the piece on board[row][col], 0 for an empty square.
SquareScore(board, row, col) ==
  LET piece == board[Sq(row, col)]
      bonus == IF piece.type = "p"
               THEN (IF piece.color = "w" THEN PAWN_TABLE[row + 1][col + 1]
                     ELSE PAWN_TABLE[7 - row + 1][col + 1])
               ELSE IF piece.type = "n"
               THEN (IF piece.color = "w" THEN KNIGHT_TABLE[row + 1][col + 1]
                     ELSE KNIGHT_TABLE[7 - row + 1][col + 1])
               ELSE 0
      value == PIECE_VALUES(piece.type) + bonus
  IN IF piece = NoPiece THEN 0
     ELSE IF piece.color = "w" THEN value ELSE -value

\* The inner loop of evaluateBoard: the sum of SquareScore over the columns
\* of a row from col on.
RECURSIVE RowFrom(_, _, _)
RowFrom(board, row, col) ==
  IF col >= 8 THEN 0
  ELSE SquareScore(board, row, col) + RowFrom(board, row, col + 1)

\* The outer loop of evaluateBoard: the sum over the rows from row on.
RECURSIVE ScoreFrom(_, _)
ScoreFrom(board, row) ==
  IF row >= 8 THEN 0
  ELSE RowFrom(board, row, 0) + ScoreFrom(board, row + 1)

\* A faulty evaluateBoard: the draw test is missing, a drawn position is
\* scored by its material.
evaluateBoardNoDraw(g) ==
  IF IsCheckmate(g) THEN (IF g.turn = "w" THEN -Infinity ELSE Infinity)
  ELSE ScoreFrom(g.board, 0)

\* A faulty evaluateBoard: the sign of a checkmate is the wrong way round.
evaluateBoardMateSigns(g) ==
  IF IsCheckmate(g) THEN (IF g.turn = "w" THEN Infinity ELSE -Infinity)
  ELSE IF IsDraw(g) THEN 0
  ELSE ScoreFrom(g.board, 0)

\* ChessEngine.evaluateBoard
evaluateBoard(g) ==
  IF IsCheckmate(g) THEN (IF g.turn = "w" THEN -Infinity ELSE Infinity)
  ELSE IF IsDraw(g) THEN 0
  ELSE ScoreFrom(g.board, 0)

Max(a, b) == IF a >= b THEN a ELSE b

Min(a, b) == IF a <= b THEN a ELSE b

\* The k-th draw (k = 0, 1, ..) of Math.random() under a seed, as the
\* numerator of a fraction over MaxSeed + 1.
RandomNum(seed, k) == (seed * (k + 1)) % (MaxSeed + 1)

Swap(array, i, j) == [array EXCEPT ![i] = array[j], ![j] = array[i]]

\* ChessEngine.shuffleArray: i runs from the last index down to the second;
\* j = floor(random * (i + 1)) in the source's 0-based indices.
RECURSIVE shuffleFrom(_, _, _, _)
shuffleFrom(array, i, seed, k) ==
  IF i <= 0 THEN array
  ELSE LET j == (RandomNum(seed, k) * (i + 1)) \div (MaxSeed + 1)
       IN shuffleFrom(Swap(array, i + 1, j + 1), i - 1, seed, k + 1)

shuffleArray(array, seed) == shuffleFrom(array, Len(array) - 1, seed, 0)

\* A faulty depth: medium searches as shallowly as easy.
getSearchDepthShallow(difficulty) ==
  CASE difficulty = "hard" -> 3
    [] OTHER -> 1

\* ChessEngine.getSearchDepth
getSearchDepth(difficulty) ==
  CASE difficulty = "easy" -> 1
    [] difficulty = "medium" -> 2
    [] difficulty = "hard" -> 3
    [] OTHER -> 2

\* A faulty cut-off test: the comparison is the wrong way round.
CutOffReversed(alpha, beta) == alpha <= beta

\* Has the loop over the siblings reached its cut-off ?
CutOff(alpha, beta) == beta <= alpha

\* A faulty search: the move made for a child is not taken back.
undoChildMissing(g) == g

\* this.game.undo() after a child has been searched.
undoChild(g) == GameUndo(g).game

\* A faulty comparison: the test against the best value is missing, every
\* value replaces it.
ImprovesAlways(isMaximizing, value, bestValue) == TRUE

\* Does value replace bestValue ? (strict improvement for the side to move)
Improves(isMaximizing, value, bestValue) ==
  IF isMaximizing THEN value > bestValue ELSE value < bestValue

\* A for-loop over the moves is run by halves: the moves lo..mid, then, from
\* the state they left, the moves mid+1..hi; nothing runs once the loop has
\* broken.

\* The maximizer's loop after the child's search r: lines 221-224.
maxStep(st, r, more) ==
  [game |-> undoChild(r.game),
   value |-> Max(st.value, r.value),
   alpha |-> Max(st.alpha, r.value),
   beta |-> st.beta,
   cut |-> st.cut \/ r.cut \/ (CutOff(Max(st.alpha, r.value), st.beta) /\ more),
   deepest |-> Max(st.deepest, r.deepest),
   done |-> CutOff(Max(st.alpha, r.value), st.beta)]

\* The minimizer's loop after the child's search r: lines 232-235.
minStep(st, r, more) ==
  [game |-> undoChild(r.game),
   value |-> Min(st.value, r.value),
   alpha |-> st.alpha,
   beta |-> Min(st.beta, r.value),
   cut |-> st.cut \/ r.cut \/ (CutOff(st.alpha, Min(st.beta, r.value)) /\ more),
   deepest |-> Max(st.deepest, r.deepest),
   done |-> CutOff(st.alpha, Min(st.beta, r.value))]

\* The loop's variables on entry.
loopStart(g, alpha, beta, isMaximizing) ==
  [game |-> g, value |-> IF isMaximizing THEN -Infinity ELSE Infinity,
   alpha |-> alpha, beta |-> beta, cut |-> FALSE, deepest |-> Len(g.history),
   done |-> FALSE]

\* What minimax returns after its loop: the value, the game as the call
\* leaves it, whether a loop of the call was cut off (more: siblings were
\* left unsearched), and the longest history the game had during the call.
loopEnd(st) ==
  [value |-> st.value, game |-> st.game, cut |-> st.cut, deepest |-> st.deepest]

\* A faulty test: a finished game is searched on.
AtLeafByDepthOnly(g, depth) == depth = 0

\* Does minimax return the evaluation without searching ? (line 210)
AtLeaf(g, depth) == depth = 0 \/ IsGameOver(g)

\* ChessEngine.minimax, on the one game object the search shares. A move
\* handed to game.move was generated for the position it is made in.
RECURSIVE minimax(_, _, _, _, _)
RECURSIVE loopRun(_, _, _, _, _, _)

loopRun(st, moves, depth, isMaximizing, lo, hi) ==
  IF lo > hi \/ st.done THEN st
  ELSE IF lo < hi
       THEN loopRun(loopRun(st, moves, depth, isMaximizing, lo, (lo + hi) \div 2),
                    moves, depth, isMaximizing, (lo + hi) \div 2 + 1, hi)
       ELSE IF isMaximizing
            THEN maxStep(st, minimax(MakeMoveG(st.game, moves[lo]), depth - 1,
                                     st.alpha, st.beta, FALSE), lo < Len(moves))
            ELSE minStep(st, minimax(MakeMoveG(st.game, moves[lo]), depth - 1,
                                     st.alpha, st.beta, TRUE), lo < Len(moves))

minimax(g, depth, alpha, beta, isMaximizing) ==
  IF AtLeaf(g, depth)
  THEN [value |-> evaluateBoard(g), game |-> g, cut |-> FALSE, deepest |-> Len(g.history)]
  ELSE loopEnd(loopRun(loopStart(g, alpha, beta, isMaximizing), LegalMoves(g),
                       depth, isMaximizing, 1, Len(LegalMoves(g))))

\* getBestMove's loop after the search r of the position after move: lines
\* 178-190.
bestStep(st, move, r, isMaximizing) ==
  [game |-> undoChild(r.game),
   i |-> st.i + 1,
   bestMove |-> IF Improves(isMaximizing, r.value, st.bestValue) THEN move ELSE st.bestMove,
   bestValue |-> IF Improves(isMaximizing, r.value, st.bestValue) THEN r.value
                 ELSE st.bestValue,
   cut |-> st.cut \/ r.cut,
   deepest |-> Max(st.deepest, r.deepest)]

\* Up to n turns of getBestMove's loop, which ends after the last move.
RECURSIVE bestRun(_, _, _, _, _)
bestRun(st, moves, depth, isMaximizing, n) ==
  IF n = 0 \/ st.i > Len(moves) THEN st
  ELSE IF n > 1
       THEN bestRun(bestRun(st, moves, depth, isMaximizing, n \div 2),
                    moves, depth, isMaximizing, n - (n \div 2))
       ELSE bestStep(st, moves[st.i],
                     minimax(MakeMoveG(st.game, moves[st.i]), depth - 1,
                             -Infinity, Infinity, ~isMaximizing),
                     isMaximizing)

\* getBestMove's variables on entry.
bestStart(g, isMaximizing) ==
  [game |-> g, i |-> 1, bestMove |-> NullMove,
   bestValue |-> IF isMaximizing THEN -Infinity ELSE Infinity, cut |-> FALSE,
   deepest |-> Len(g.history)]

\* What getBestMove returns, with the game as it leaves it.
bestEnd(st) ==
  [move |-> st.bestMove, game |-> st.game, cut |-> st.cut, deepest |-> st.deepest]

\* The search of the shuffled moves.
bestOf(g, moves, depth) ==
  bestEnd(bestRun(bestStart(g, g.turn = "w"), moves, depth, g.turn = "w", Len(moves)))

\* ChessEngine.getBestMove, the random source of the shuffle seeded with seed.
getBestMove(g, difficulty, seed) ==
  bestOf(g, shuffleArray(LegalMoves(g), seed), getSearchDepth(difficulty))

\* Minimax with no pruning: every sibling is searched.
RECURSIVE plainMinimax(_, _, _)
RECURSIVE plainRun(_, _, _, _, _, _)
plainMinimax(g, depth, isMaximizing) ==
  IF depth = 0 \/ IsGameOver(g) THEN evaluateBoard(g)
  ELSE plainRun(g, LegalMoves(g), depth, isMaximizing, 1, Len(LegalMoves(g)))

plainBetter(isMaximizing, a, b) == IF isMaximizing THEN Max(a, b) ELSE Min(a, b)

plainRun(g, moves, depth, isMaximizing, lo, hi) ==
  IF lo > hi THEN (IF isMaximizing THEN -Infinity ELSE Infinity)
  ELSE IF lo = hi THEN plainMinimax(MakeMoveG(g, moves[lo]), depth - 1, ~isMaximizing)
  ELSE plainBetter(isMaximizing,
                   plainRun(g, moves, depth, isMaximizing, lo, (lo + hi) \div 2),
                   plainRun(g, moves, depth, isMaximizing, (lo + hi) \div 2 + 1, hi))

(* ------------------------------------------------- the win probability *)

\* Math.round(sigmoid * 100) with sigmoid = 1 / (1 + Math.pow(10,
\* -evaluation / 400)) grows with the evaluation, an integer: WinThresholds[k]
\* is the least evaluation at which it is k. (At no integer evaluation is
\* sigmoid * 100 nearer than 0.0005 to a half, so the doubles round as the
\* reals do.)
WinThresholds ==
  <<
    -919, -726, -636, -576, -530, -494, -463, -436, -412, -391, -372,
    -354, -338, -322, -308, -294, -281, -269, -257, -246, -235, -224,
    -214, -205, -195, -186, -177, -168, -159, -151, -143, -134, -126,
    -119, -111, -103, -96, -88, -81, -74, -66, -59, -52, -45, -38,
    -31, -24, -17, -10, -3, 4, 11, 18, 25, 32, 39, 46, 53, 60, 67, 75,
    82, 89, 97, 104, 112, 120, 127, 135, 144, 152, 160, 169, 178, 187,
    196, 206, 215, 225, 236, 247, 258, 270, 282, 295, 309, 323, 339,
    355, 373, 392, 413, 437, 464, 495, 531, 577, 637, 727, 920
  >>

\* A faulty estimate: linear in the evaluation, ten points to the percent,
\* without the bounds of the sigmoid.
whiteWinLinear(evaluation) == 50 + evaluation \div 10

\* whiteWin in getWinProbability: Math.round(sigmoid * 100).
whiteWin(evaluation) ==
  Cardinality({k \in 1..Len(WinThresholds) : evaluation >= WinThresholds[k]})

\* A faulty getWinProbability: the mated side is given the game.
getWinProbabilityMateSwapped(g) ==
  IF IsCheckmate(g)
  THEN (IF g.turn = "w" THEN [white |-> 100, black |-> 0] ELSE [white |-> 0, black |-> 100])
  ELSE IF IsDraw(g) THEN [white |-> 50, black |-> 50]
  ELSE [white |-> whiteWin(evaluateBoard(g)), black |-> 100 - whiteWin(evaluateBoard(g))]

\* ChessEngine.getWinProbability
getWinProbability(g) ==
  IF IsCheckmate(g)
  THEN (IF g.turn = "w" THEN [white |-> 0, black |-> 100] ELSE [white |-> 100, black |-> 0])
  ELSE IF IsDraw(g) THEN [white |-> 50, black |-> 50]
  ELSE [white |-> whiteWin(evaluateBoard(g)), black |-> 100 - whiteWin(evaluateBoard(g))]

(* ------------------------------------------------------------ the inputs *)

\* Serialized positions handed to loadFen.
KingsOnly == Position({<<At(1, 8), "k", "b">>, <<At(8, 1), "k", "w">>}, "w", NoSquare, 0, 1)

\* White's only move, Kg1, lets Black mate at once with Ra1.
LostForWhite ==
  Position({<<At(1, 3), "p", "b">>, <<At(1, 2), "r", "b">>, <<At(7, 3), "k", "b">>,
            <<At(8, 1), "k", "w">>}, "w", NoSquare, 0, 1)

\* Pawns that can take each other, Black to move; White's king can retake.
PawnDuel ==
  Position({<<At(5, 8), "k", "b">>, <<At(4, 5), "p", "b">>, <<At(5, 4), "p", "w">>,
            <<At(5, 3), "k", "w">>}, "b", NoSquare, 0, 1)

\* The last pawn can be taken: king against king follows.
LastPawn ==
  Position({<<At(2, 3), "p", "b">>, <<At(2, 2), "k", "w">>, <<At(8, 8), "k", "b">>},
           "w", NoSquare, 0, 1)

\* Black is stalemated.
Stalemated ==
  Position({<<At(8, 8), "k", "b">>, <<At(6, 7), "q", "w">>, <<At(1, 1), "k", "w">>},
           "b", NoSquare, 0, 1)

\* One quiet move away from the fifty-move rule.
FiftyMoves ==
  Position({<<At(8, 8), "k", "b">>, <<At(5, 7), "p", "b">>, <<At(5, 6), "p", "w">>,
            <<At(1, 1), "k", "w">>}, "w", NoSquare, 99, 60)

\* Black may take en passant on e3.
EnPassant ==
  Position({<<At(5, 8), "k", "b">>, <<At(4, 4), "p", "b">>, <<At(5, 4), "p", "w">>,
            <<At(5, 1), "k", "w">>}, "b", At(5, 3), 0, 1)

\* A pawn about to promote.
Promotion ==
  Position({<<At(1, 7), "p", "w">>, <<At(8, 7), "k", "b">>, <<At(1, 1), "k", "w">>},
           "w", NoSquare, 0, 1)

\* White mates with a pawn move; other moves do not.
PawnMate ==
  Position({<<At(8, 8), "k", "b">>, <<At(8, 7), "p", "b">>, <<At(6, 7), "k", "w">>,
            <<At(7, 6), "p", "w">>}, "w", NoSquare, 0, 1)

\* Black's quiet move Ra1 mates and is the hundredth half-move without a
\* pawn move or a capture.
MateOnFifty ==
  Position({<<At(1, 3), "p", "b">>, <<At(1, 2), "r", "b">>, <<At(7, 3), "k", "b">>,
            <<At(7, 1), "k", "w">>}, "b", NoSquare, 99, 60)

\* Malformed: no black king; a side to move that is no colour.
NoBlackKing == Position({<<At(1, 1), "k", "w">>}, "w", NoSquare, 0, 1)

BadTurn == [KingsOnly EXCEPT !.turn = "x"]

\* Black to move with a pawn to push: one ply deep the search pushes it, two
\* plies deep it moves the king.
PawnAhead ==
  Position({<<At(8, 8), "k", "b">>, <<At(1, 3), "k", "w">>, <<At(2, 3), "p", "b">>},
           "b", NoSquare, 1, 1)

\* White to move with pawns passing each other: two plies deep the search
\* pushes the pawn, three plies deep it moves the king.
PassedPawns ==
  Position({<<At(4, 8), "k", "b">>, <<At(4, 4), "p", "b">>, <<At(5, 4), "p", "w">>,
            <<At(5, 1), "k", "w">>}, "w", NoSquare, 1, 2)

SessionFens ==
  {KingsOnly, LostForWhite, PawnDuel, LastPawn, Stalemated, FiftyMoves, EnPassant,
   Promotion, PawnMate, MateOnFifty, NoBlackKing, BadTurn}

SearchFens == {LostForWhite, LastPawn, FiftyMoves, PawnMate}

Input(from, to, promotion) == [from |-> from, to |-> to, promotion |-> promotion]

\* Calls of makeMove that are legal in few positions or none.
ProbeInputs ==
  {Input(At(5, 2), At(5, 5), None), Input(At(1, 1), At(1, 2), None),
   Input(At(8, 8), At(8, 8), None), Input(At(1, 7), At(1, 8), "k"),
   Input(At(4, 4), At(5, 3), "q")}

\* The calls of makeMove tried in game g with legal moves ms: every legal
\* move, every legal move backwards, and the probes.
MoveInputs(ms) ==
  {Input(ms[i].from, ms[i].to, ms[i].promotion) : i \in 1..Len(ms)}
  \cup {Input(ms[i].to, ms[i].from, None) : i \in 1..Len(ms)}
  \cup ProbeInputs

Difficulties == {"easy", "medium", "hard"}

(* ------------------------------------------------------------- the state *)

VARIABLES
  game,         \* this.game: the rules engine's game
  difficulty,   \* this.difficulty
  playerColor,  \* this.playerColor
  last,         \* the last call made on the engine and what it returned
  ui            \* the ChessGame component showing the engine, when one is mounted

vars == <<game, difficulty, playerColor, last, ui>>

\* No component is mounted: the engine is driven directly.
NoComponent ==
  [mode |-> None, gameState |-> None, isComputerThinking |-> FALSE, pending |-> 0]

Call(op, move, ok, seed, cut) ==
  [op |-> op, move |-> move, ok |-> ok, seed |-> seed, cut |-> cut]

\* new ChessEngine()
Init ==
  /\ game = NewGame
  /\ difficulty = "medium"
  /\ playerColor = "w"
  /\ last = Call("new", NullMove, TRUE, 0, FALSE)
  /\ ui = NoComponent

\* How long a history the session may grow to: sessions from the standard
\* start are followed MaxOpeningPly deep, sessions from a loaded position
\* MaxPly deep.
SessionLimit == IF game.header.setUp THEN MaxPly ELSE MaxOpeningPly

MakeMove(limit) ==
  /\ Len(game.history) < limit
  /\ LET ms == LegalMoves(game)
     IN \E i \in MoveInputs(ms) :
          LET r == makeMove(game, ms, i.from, i.to, i.promotion)
          IN /\ game' = r.game
             /\ last' = Call("makeMove", r.move, r.move # NullMove, 0, FALSE)
  /\ UNCHANGED <<difficulty, playerColor, ui>>

UndoMove ==
  /\ LET r == undoMove(game)
     IN /\ game' = r.game
        /\ last' = Call("undoMove", r.move, r.move # NullMove, 0, FALSE)
  /\ UNCHANGED <<difficulty, playerColor, ui>>

Reset ==
  /\ game' = reset(game)
  /\ last' = Call("reset", NullMove, TRUE, 0, FALSE)
  /\ UNCHANGED <<difficulty, playerColor, ui>>

LoadFen ==
  /\ \E f \in SessionFens :
       LET r == loadFen(game, f)
       IN /\ game' = r.game
          /\ last' = Call("loadFen", NullMove, r.ok, 0, FALSE)
  /\ UNCHANGED <<difficulty, playerColor, ui>>

\* What a call of a setter leaves in last: the call and the value it was given.
Setting(op, value) ==
  [op |-> op, move |-> NullMove, ok |-> TRUE, seed |-> 0, cut |-> FALSE, value |-> value]

\* A faulty setter: the value it is given is not stored.
SetDifficultyIgnored ==
  /\ \E d \in Difficulties : last' = Setting("setDifficulty", d)
  /\ UNCHANGED <<game, difficulty, playerColor, ui>>

SetDifficulty ==
  /\ \E d \in Difficulties :
       /\ difficulty' = d
       /\ last' = Setting("setDifficulty", d)
  /\ UNCHANGED <<game, playerColor, ui>>

SetPlayerColor ==
  /\ \E c \in Colors :
       /\ playerColor' = c
       /\ last' = Setting("setPlayerColor", c)
  /\ UNCHANGED <<game, difficulty, ui>>

GetBestMove ==
  /\ \E seed \in 0..MaxSeed :
       LET r == getBestMove(game, difficulty, seed)
       IN /\ game' = r.game
          /\ last' = Call("getBestMove", r.move, r.move # NullMove, seed, r.cut)
  /\ UNCHANGED <<difficulty, playerColor, ui>>

\* The game session: moves, undo, reset and loading.
Next == MakeMove(SessionLimit) \/ UndoMove \/ Reset \/ LoadFen

Spec == Init /\ [][Next]_vars

\* The search: a position loaded into a new engine at some difficulty, then
\* played and searched.
SearchInit ==
  /\ \E f \in SearchFens : game = loadFen(NewGame, f).game
  /\ difficulty \in Difficulties
  /\ playerColor = "w"
  /\ last = Call("loadFen", NullMove, TRUE, 0, FALSE)
  /\ ui = NoComponent

SearchNext == MakeMove(MaxSearchPly) \/ GetBestMove

SearchSpec == SearchInit /\ [][SearchNext]_vars

\* The configuration: a position loaded into a new engine, whose difficulty
\* and player colour are then set in any order between searches.
ConfigFens == {PawnAhead, PassedPawns, LastPawn, PawnMate, Stalemated}

ConfigInit ==
  /\ \E f \in ConfigFens : game = loadFen(NewGame, f).game
  /\ difficulty = "medium"
  /\ playerColor = "w"
  /\ last = Call("loadFen", NullMove, TRUE, 0, FALSE)
  /\ ui = NoComponent

ConfigNext == SetDifficulty \/ SetPlayerColor \/ GetBestMove

ConfigSpec == ConfigInit /\ [][ConfigNext]_vars

(* ------------------------------------------------------- the game screen *)

\* A game on the screen is followed MaxGamePly moves deep, with at most
\* MaxPending delayed computer moves waiting for their timers.
MaxGamePly == 8

MaxPending == 2

Modes == {"pvp", "pvc"}

\* The difficulty the screen is opened with.
ScreenDifficulties == {"easy"}

\* The moves the human tries on the board: e7-e5, Bf8-c5, Qd8-h4, Qh4xf2,
\* Nb8-c6 and Ng1-f3.
HumanInputs ==
  {Input(At(5, 7), At(5, 5), None), Input(At(6, 8), At(3, 5), None),
   Input(At(4, 8), At(8, 4), None), Input(At(8, 4), At(6, 2), None),
   Input(At(2, 8), At(3, 6), None), Input(At(7, 1), At(6, 3), None)}

\* ChessGame.isPlayerTurn
isPlayerTurn(u, color) ==
  IF u.mode = "pvp" THEN TRUE
  ELSE u.gameState.turn = color /\ ~u.isComputerThinking /\ ~u.gameState.isGameOver

\* makeComputerMove up to its await: the thinking flag is set and the rest
\* waits for its timer.
startComputerMove(u) == [u EXCEPT !.isComputerThinking = TRUE, !.pending = @ + 1]

\* makeComputerMove after its await, bestMove being what getBestMove
\* returned and newState the engine's state after the move was made: the
\* state is shown if there was a move, and the flag is cleared.
makeComputerMove(u, bestMove, newState) ==
  [u EXCEPT !.gameState = IF bestMove # NullMove THEN newState ELSE @,
            !.isComputerThinking = FALSE,
            !.pending = @ - 1]

\* setGameState(newState) in handleMove, and the computer's turn after it.
afterMove(u, newState, color) ==
  IF u.mode = "pvc" /\ ~newState.isGameOver /\ newState.turn # color
  THEN startComputerMove([u EXCEPT !.gameState = newState])
  ELSE [u EXCEPT !.gameState = newState]

\* ChessGame.handleMove, move being what engine.makeMove returned and
\* newState the engine's state after it.
handleMove(u, move, newState, color) ==
  IF move # NullMove THEN afterMove(u, newState, color) ELSE u

\* ChessGame.handleUndo, undone being what the first engine.undoMove
\* returned: is a second move taken back ?
undoesTwice(u, undone) ==
  undone # NullMove /\ u.mode = "pvc" /\ Len(u.gameState.moveHistory) > 1

\* ChessGame.handleUndo: the state after the undo is shown if a move was
\* taken back.
handleUndo(u, undone, newState) ==
  IF undone # NullMove THEN [u EXCEPT !.gameState = newState] ELSE u

\* ChessGame.handleNewGame, newState being the engine's state after the
\* reset.
handleNewGame(u, newState, color) ==
  IF u.mode = "pvc" /\ color = "b"
  THEN startComputerMove([u EXCEPT !.gameState = newState])
  ELSE [u EXCEPT !.gameState = newState]

\* A faulty resignation: the game shown is marked as over.
handleResignEnds(u) == [u EXCEPT !.gameState.isGameOver = TRUE]

\* ChessGame.handleResign: the dialog is closed and a toast names the winner;
\* the state of the component stays as it is and the engine is not called.
handleResign(u) == u

\* The component after its first render and its effects: the engine's state
\* is shown, and the computer is asked for the first move when the player
\* has Black.
mount(mode, color, newState) ==
  LET u == [mode |-> mode, gameState |-> newState,
            isComputerThinking |-> FALSE, pending |-> 0]
  IN IF mode = "pvc" /\ color = "b" /\ newState.moveHistory = <<>>
     THEN startComputerMove(u) ELSE u

\* <ChessGame mode difficulty playerColor />: two players share the board,
\* or one plays the computer with either colour.
ScreenInit ==
  /\ game = NewGame
  /\ difficulty \in ScreenDifficulties
  /\ playerColor \in Colors
  /\ last = Call("new", NullMove, TRUE, 0, FALSE)
  /\ \E mode \in Modes :
       /\ mode = "pvp" => playerColor = "w"
       /\ ui = mount(mode, playerColor, getState(NewGame))

\* What a handler leaves behind: the engine's game, the call it made with
\* what the call returned, and the component's state.
Handled(op, g, move, seed, u) ==
  /\ game' = g
  /\ last' = Call(op, move, move # NullMove \/ op = "reset", seed, FALSE)
  /\ ui' = u
  /\ UNCHANGED <<difficulty, playerColor>>

\* A click or a drop on the board: the board passes on a move of a piece of
\* the side shown to move to one of its valid squares, on the player's turn.
HandleMove ==
  /\ isPlayerTurn(ui, playerColor)
  /\ Len(game.history) < MaxGamePly
  /\ ui.pending < MaxPending
  /\ \E ms \in {LegalMoves(game)} :
       \E i \in HumanInputs :
         /\ \E k \in 1..Len(ms) :
              ms[k].from = i.from /\ ms[k].to = i.to /\ ms[k].color = ui.gameState.turn
         /\ \E r \in {makeMove(game, ms, i.from, i.to, None)} :
              \E newState \in {getState(r.game)} :
                Handled("makeMove", r.game, r.move, 0,
                        handleMove(ui, r.move, newState, playerColor))

\* The timer of a waiting makeComputerMove fires: the best move is asked
\* for and made.
ComputerMove ==
  /\ ui.pending > 0
  /\ \E seed \in 0..MaxSeed :
       \E best \in {getBestMove(game, difficulty, seed)} :
         \E made \in {IF best.move # NullMove
                      THEN makeMove(best.game, LegalMoves(best.game), best.move.from,
                                    best.move.to, best.move.promotion)
                      ELSE [move |-> NullMove, game |-> best.game]} :
           \E newState \in {getState(made.game)} :
             Handled("makeComputerMove", made.game, best.move, seed,
                     makeComputerMove(ui, best.move, newState))

\* The Undo button, enabled with a move shown and the computer not thinking.
HandleUndo ==
  /\ ui.gameState.moveHistory # <<>>
  /\ ~ui.isComputerThinking
  /\ \E undone \in {undoMove(game)} :
       \E g \in {IF undoesTwice(ui, undone.move) THEN undoMove(undone.game).game
                 ELSE undone.game} :
         \E newState \in {getState(g)} :
           Handled("undoMove", g, undone.move, 0, handleUndo(ui, undone.move, newState))

\* The New Game dialog is confirmed; its button is never disabled.
HandleNewGame ==
  /\ ui.pending < MaxPending
  /\ \E g \in {reset(game)} :
       \E newState \in {getState(g)} :
         Handled("reset", g, NullMove, 0, handleNewGame(ui, newState, playerColor))

\* The Resign dialog is confirmed; its button is shown while the game shown
\* is not over.
HandleResign ==
  /\ ~ui.gameState.isGameOver
  /\ Handled("resign", game, NullMove, 0, handleResign(ui))

ScreenNext == HandleMove \/ ComputerMove \/ HandleUndo \/ HandleNewGame \/ HandleResign

ScreenSpec == ScreenInit /\ [][ScreenNext]_vars

(* -------------------------------------------------- the session's claims *)

\* Is the call makeMove(i.from, i.to, i.promotion) a legal move, ms being the
\* legal moves of the position ?  (An absent promotion stands for a queen.)
IsLegalInput(ms, i) ==
  \E k \in 1..Len(ms) :
    /\ ms[k].from = i.from
    /\ ms[k].to = i.to
    /\ ms[k].promotion \in {None, IF i.promotion = None THEN "q" ELSE i.promotion}

\* C1: a call of makeMove that is not a legal move of the current position
\* returns null and leaves the session state (position, turn, history,
\* captured pieces, terminal flags) as it was.
IllegalMoveRejected ==
  LET ms == LegalMoves(game)
  IN \A i \in MoveInputs(ms) :
       ~IsLegalInput(ms, i) =>
         LET r == makeMove(game, ms, i.from, i.to, i.promotion)
         IN r.move = NullMove /\ getState(r.game) = getState(game)

\* C1's case: an illegal call has just been refused in a game with history.
IllegalMoveTried ==
  /\ last.op = "makeMove"
  /\ last.move = NullMove
  /\ game.history # <<>>

\* C2: once the game is over (checkmate, stalemate or any draw) every call of
\* makeMove fails.
GameOverAbsorbing ==
  IsGameOver(game) =>
    LET ms == LegalMoves(game)
    IN \A i \in MoveInputs(ms) :
         makeMove(game, ms, i.from, i.to, i.promotion).move = NullMove

\* C7: for every legal move of the current position, makeMove followed at once
\* by undoMove hands back the move and restores the GameState exactly (FEN,
\* turn, history, captured pieces and the five flags).
UndoInverse ==
  LET ms == LegalMoves(game)
  IN \A k \in 1..Len(ms) :
       LET made == makeMove(game, ms, ms[k].from, ms[k].to, ms[k].promotion)
           undone == undoMove(made.game)
       IN /\ made.move = ms[k]
          /\ undone.move = ms[k]
          /\ getState(undone.game) = getState(game)

\* C7's case: a position with moves played, in which a capture can be made
\* and taken back.
CaptureToUndo ==
  /\ game.history # <<>>
  /\ \E k \in 1..Len(LegalMoves(game)) : LegalMoves(game)[k].captured # None

\* The position reached from g by making the moves history[i..] through makeMove.
RECURSIVE Replay(_, _, _)
Replay(g, history, i) ==
  IF i > Len(history) THEN g
  ELSE Replay(makeMove(g, LegalMoves(g), history[i].from, history[i].to,
                       history[i].promotion).game,
              history, i + 1)

TurnIsHistoryParity ==
  getState(game).turn = IF Len(getState(game).moveHistory) % 2 = 0 THEN "w" ELSE "b"

\* The side to move of the position the session started from: White at the
\* standard start, the loaded position's side after a load.
StartingSide == IF game.header.setUp THEN game.header.fen.turn ELSE "w"

\* C9 amended: the side to move is the starting side of the position last set
\* up (by construction, reset or load) when the history has even length, and
\* the other side when it has odd length.
TurnIsParityFromStart ==
  getState(game).turn =
    IF Len(getState(game).moveHistory) % 2 = 0 THEN StartingSide
    ELSE swapColor(StartingSide)

\* C9's case: one move played from a loaded position with Black to move.
WhiteOnOddHistory ==
  /\ StartingSide = "b"
  /\ Len(game.history) = 1
  /\ game.turn = "w"

\* The kinds captured by the moves of colour c in history, oldest first.
RECURSIVE CapturedBy(_, _, _)
CapturedBy(c, history, n) ==
  IF n = 0 THEN <<>>
  ELSE IF history[n].color = c /\ history[n].captured # None
       THEN Append(CapturedBy(c, history, n - 1), history[n].captured)
       ELSE CapturedBy(c, history, n - 1)

NullOnlyWithoutMoves ==
  (last.op = "getBestMove" /\ last.move = NullMove) => LegalMoves(game) = <<>>

\* C4: a search leaves the game exactly as it found it: position, side to
\* move, history, captured pieces and flags, whether or not a move is returned
\* and whether or not loops were cut off.
SearchLeavesGame ==
  [][last'.op = "getBestMove" => (game' = game /\ getState(game') = getState(game))]_vars

\* C4's case: a search in which a sibling loop was cut off has returned a move.
SearchedWithCutOff ==
  /\ last.op = "getBestMove"
  /\ last.cut
  /\ last.move # NullMove
  /\ game.history # <<>>

\* The depths a search reaches.
Depths == 0..getSearchDepth("hard")

\* C5: at every depth the value of minimax over the full window, with its
\* cut-offs, is the value of minimax without cut-offs.
PruningKeepsValue ==
  LET isMaximizing == game.turn = "w"
  IN \A depth \in Depths :
       minimax(game, depth, -Infinity, Infinity, isMaximizing).value
         = plainMinimax(game, depth, isMaximizing)

\* C5's case: the search of the position cuts a loop off, and a line of it
\* ends in mate.
CutOffWithMateInTree ==
  /\ minimax(game, getSearchDepth("hard"), -Infinity, Infinity, game.turn = "w").cut
  /\ plainMinimax(game, getSearchDepth("medium"), game.turn = "w") \in {-Infinity, Infinity}

\* The value getBestMove gives the move m of game g at this difficulty.
MoveValue(g, m, d) ==
  minimax(MakeMoveG(g, m), getSearchDepth(d) - 1, -Infinity, Infinity, g.turn # "w").value

\* C6: in a position with a legal move, the move getBestMove returns is a
\* legal move of the greatest value with White to move, of the least with
\* Black to move, and the first such move of the shuffled list.
BestMoveIsFirstOptimal ==
  (last.op = "getBestMove" /\ LegalMoves(game) # <<>>) =>
    LET moves == shuffleArray(LegalMoves(game), last.seed)
    IN \E k \in 1..Len(moves) :
         /\ last.move = moves[k]
         /\ \A j \in 1..Len(moves) :
              LET vk == MoveValue(game, moves[k], difficulty)
                  vj == MoveValue(game, moves[j], difficulty)
              IN /\ IF game.turn = "w" THEN vk >= vj ELSE vk <= vj
                 /\ j < k => vj # vk

Reverse(seq) == [i \in 1..Len(seq) |-> seq[Len(seq) + 1 - i]]

\* Orders of the root move list: as generated, reversed, and as shuffled
\* under each seed.
Orders(moves) ==
  {moves, Reverse(moves)} \cup {shuffleArray(moves, seed) : seed \in 0..MaxSeed}

\* The value of the move the search returns for the root moves in this
\* order, as a sequence: empty when no move is returned.
PickedValue(g, moves, d) ==
  LET move == bestOf(g, moves, getSearchDepth(d)).move
  IN IF move = NullMove THEN <<>> ELSE <<MoveValue(g, move, d)>>

\* C19: the order of the root moves changes at most which move is returned,
\* not its value: every order of the legal moves gives a move of the same
\* minimax value (or no move in every order), and a search repeated with the
\* same shuffle returns the move it returned before.
ShuffleKeepsValue ==
  /\ \E asGenerated \in {PickedValue(game, LegalMoves(game), difficulty)} :
       \A moves \in Orders(LegalMoves(game)) :
         PickedValue(game, moves, difficulty) = asGenerated
  /\ last.op = "getBestMove" => getBestMove(game, difficulty, last.seed).move = last.move

\* C19's case: a search has returned a move, and another order of the root
\* moves gives a different move.
OrderChangesMove ==
  /\ last.op = "getBestMove"
  /\ last.move # NullMove
  /\ \E o \in Orders(LegalMoves(game)) :
       bestOf(game, o, getSearchDepth(difficulty)).move \notin {NullMove, last.move}

\* The legal moves of g that mate at once.
MatingMoves(g) == SelectSeq(LegalMoves(g), LAMBDA m: IsCheckmate(MakeMoveG(g, m)))

\* C20: when the side to move can mate at once, the move returned at
\* difficulty easy (one ply) mates, whichever way the moves are shuffled.
MateInOneFound ==
  MatingMoves(game) # <<>> =>
    \A seed \in 0..MaxSeed :
      \E best \in {getBestMove(game, "easy", seed).move} :
        best # NullMove /\ IsCheckmate(MakeMoveG(game, best))

\* C20's case: Black, with other moves at hand, has been found its mate at
\* difficulty easy.
BlackMateFound ==
  /\ last.op = "getBestMove"
  /\ difficulty = "easy"
  /\ game.turn = "b"
  /\ Len(LegalMoves(game)) > Len(MatingMoves(game))
  /\ last.move # NullMove
  /\ IsCheckmate(MakeMoveG(game, last.move))

\* White, with other moves at hand, has been found its mate at difficulty easy.
WhiteMateFound ==
  /\ last.op = "getBestMove"
  /\ difficulty = "easy"
  /\ game.turn = "w"
  /\ Len(LegalMoves(game)) > Len(MatingMoves(game))
  /\ last.move # NullMove
  /\ IsCheckmate(MakeMoveG(game, last.move))

(* --------------------------------------------- the session's operations *)

\* The capturedPieces of getState: lines 103-104.
capturedPieces(g) == getCapturedPieces(History(g), 1, [w |-> <<>>, b |-> <<>>])

HistoryChangesAtEnd ==
  [][/\ (last'.op = "makeMove" /\ last'.move # NullMove) =>
          /\ History(game') = Append(History(game), last'.move)
          /\ game'.turn = swapColor(game.turn)
     /\ (last'.op = "makeMove" /\ last'.move = NullMove) =>
          /\ History(game') = History(game)
          /\ game' = game
     /\ (last'.op = "undoMove" /\ History(game) # <<>>) =>
          /\ History(game') = SubSeq(History(game), 1, Len(History(game)) - 1)
          /\ last'.move = History(game)[Len(History(game))]]_vars

\* C12's case: the second of two moves has just been taken back.
SecondMoveUndone ==
  /\ last.op = "undoMove"
  /\ last.move # NullMove
  /\ Len(History(game)) = 1

\* C13: undoMove on an empty history returns null and leaves the session
\* state as it was.
UndoOnEmptyIsNoOp ==
  History(game) = <<>> =>
    /\ undoMove(game).move = NullMove
    /\ undoMove(game).game = game
    /\ getState(undoMove(game).game) = getState(game)

\* C13's case: undoMove has just found nothing to take back in a session
\* that loaded a position.
NothingToUndo ==
  /\ last.op = "undoMove"
  /\ last.move = NullMove
  /\ History(game) = <<>>
  /\ game.header.setUp

\* The GameState of a newly created session.
NewSessionState ==
  [fen |-> StartFen,
   turn |-> "w",
   isCheck |-> FALSE,
   isCheckmate |-> FALSE,
   isStalemate |-> FALSE,
   isDraw |-> FALSE,
   isGameOver |-> FALSE,
   moveHistory |-> <<>>,
   capturedPieces |-> [w |-> <<>>, b |-> <<>>]]

\* C14: reset, in any reachable state, gives the GameState of a new session:
\* the standard start with White to move, no history, no captured pieces,
\* the game not over.
ResetRestoresStart ==
  /\ getState(reset(game)) = NewSessionState
  /\ last.op = "reset" => getState(game) = NewSessionState

\* C14's case: reset has just been called.
JustReset ==
  /\ last.op = "reset"
  /\ getState(game).fen = StartFen

\* The malformed positions among those handed to loadFen.
MalformedFens == {NoBlackKing, BadTurn}

\* C15: loadFen of a malformed position returns false and leaves the session
\* state as it was; loadFen of a valid one returns true, makes it the
\* position and leaves the history and both capturedPieces lists empty.
LoadReplacesOrRefuses ==
  \A f \in SessionFens :
    LET r == loadFen(game, f)
    IN IF f \in MalformedFens
       THEN /\ ~r.ok
            /\ r.game = game
            /\ getState(r.game) = getState(game)
       ELSE /\ r.ok
            /\ Fen(r.game) = f
            /\ History(r.game) = <<>>
            /\ capturedPieces(r.game) = [w |-> <<>>, b |-> <<>>]

\* C15's case: a load has just been refused in a session with moves played.
LoadRefusedMidGame ==
  /\ last.op = "loadFen"
  /\ ~last.ok
  /\ History(game) # <<>>

\* C16: in every snapshot of getState, isGameOver is the disjunction of
\* isCheckmate, isStalemate and isDraw.
GameOverIsDisjunction ==
  LET st == getState(game)
  IN st.isGameOver = (st.isCheckmate \/ st.isStalemate \/ st.isDraw)

\* C16's case: a move has ended the game in a draw that is no stalemate.
DrawnByMove ==
  /\ last.op = "makeMove"
  /\ last.move # NullMove
  /\ getState(game).isDraw
  /\ ~getState(game).isStalemate
  /\ getState(game).isGameOver

(* --------------------------------------------------- the screen's claims *)

\* C17: no read of the screen meets a position of a search. After every
\* handler the state the screen holds is the engine's state, and when the
\* delayed computer move has run, the engine's history is what it was before
\* the search plus the one move the search returned (nothing when it
\* returned none): the moves the search made on the engine's own game are
\* all taken back before anything else runs.
SearchNeverShown ==
  [][/\ ui'.gameState = getState(game')
     /\ last'.op = "makeComputerMove" =>
          History(game') = IF last'.move = NullMove THEN History(game)
                           ELSE Append(History(game), last'.move)]_vars

\* The computer has searched a position with a move already on the board
\* and its reply is shown.
ReplyShown ==
  /\ ui.mode = "pvc"
  /\ last.op = "makeComputerMove"
  /\ last.move # NullMove
  /\ Len(ui.gameState.moveHistory) > 1
  /\ ui.gameState.moveHistory[Len(ui.gameState.moveHistory)] = last.move

\* C18: when the delayed makeComputerMove asks for the best move, the game
\* is not over.
SearchOnlyInRunningGame ==
  [][last'.op = "makeComputerMove" => ~IsGameOver(game)]_vars

\* The player has mated the computer and the computer is still to be asked
\* for a move.
MatedWithMovePending == IsCheckmate(game) /\ ui.pending > 0

(* ------------------------------------------------ the evaluator's claims *)

\* C21: in every position, finished or not, the two percentages of
\* getWinProbability are whole numbers from 0 to 100 that add up to 100.
ProbabilityCloses ==
  \E p \in {getWinProbability(game)} :
    /\ p.white \in 0..100
    /\ p.black \in 0..100
    /\ p.white + p.black = 100

\* C21's case: a game that is not over, one side well ahead but short of
\* certain to win.
UnevenChances ==
  /\ ~IsGameOver(game)
  /\ getWinProbability(game).white \notin {0, 50, 100}
  /\ last.op = "makeMove"

\* C22 as stated: every checkmate gives the mated side 0 and the other side
\* 100, and every stalemate or drawn position gives 50 and 50.
TerminalsOverride ==
  /\ IsCheckmate(game) =>
       getWinProbability(game) = IF game.turn = "w" THEN [white |-> 0, black |-> 100]
                                 ELSE [white |-> 100, black |-> 0]
  /\ (IsStalemate(game) \/ IsDraw(game)) =>
       getWinProbability(game) = [white |-> 50, black |-> 50]

\* C22 amended: the checkmate comes first; a stalemate or drawn position
\* that is not a checkmate gives 50 and 50, whatever the logistic transform
\* of its material would be.
MateThenDrawOverride ==
  /\ IsCheckmate(game) =>
       getWinProbability(game) = IF game.turn = "w" THEN [white |-> 0, black |-> 100]
                                 ELSE [white |-> 100, black |-> 0]
  /\ ((IsStalemate(game) \/ IsDraw(game)) /\ ~IsCheckmate(game)) =>
       getWinProbability(game) = [white |-> 50, black |-> 50]

\* C22's case: a mate delivered by the move that completes the fifty moves.
MatedOnFiftiethMove ==
  /\ last.op = "makeMove"
  /\ last.move # NullMove
  /\ IsCheckmate(game)
  /\ IsDraw(game)

\* A stalemate with a queen more on the board.
StalemateWithQueenUp == IsStalemate(game) /\ whiteWin(ScoreFrom(game.board, 0)) = 99

\* Black is mated.
BlackIsMated == IsCheckmate(game) /\ game.turn = "b"


\* C23 as stated: a checkmate is scored Infinity when Black is mated and
\* -Infinity when White is, and every stalemate or drawn position 0.
EvaluatorTerminals ==
  /\ IsCheckmate(game) =>
       evaluateBoard(game) = IF game.turn = "w" THEN -Infinity ELSE Infinity
  /\ (IsStalemate(game) \/ IsDraw(game)) => evaluateBoard(game) = 0

\* C23 amended: the checkmate is tested first; a stalemate or drawn
\* position that is not a checkmate is scored 0, whatever stands on the
\* board.
EvaluatorMateThenDraw ==
  /\ IsCheckmate(game) =>
       evaluateBoard(game) = IF game.turn = "w" THEN -Infinity ELSE Infinity
  /\ ((IsStalemate(game) \/ IsDraw(game)) /\ ~IsCheckmate(game)) => evaluateBoard(game) = 0

\* C23's case: White is mated with the half-move clock at a hundred, and
\* the score is the mate's.
MateScoredOnFiftiethMove ==
  /\ IsCheckmate(game)
  /\ game.turn = "w"
  /\ game.halfMoves >= 100
  /\ evaluateBoard(game) = -Infinity

\* A draw by the fifty-move rule with material on the board that does not
\* cancel.
DrawnWithUnevenMaterial ==
  /\ IsDraw(game)
  /\ ~IsCheckmate(game)
  /\ ~IsStalemate(game)
  /\ ScoreFrom(game.board, 0) # 0


\* C24: the standard starting position is scored 0, in a new engine and
\* whenever a session stands at it.
StartScoresZero ==
  /\ evaluateBoard(NewGame) = 0
  /\ Fen(game) = StartFen => evaluateBoard(game) = 0

\* C24's case: the session is back at the standard start after its first
\* move was taken back.
BackAtStart ==
  /\ last.op = "undoMove"
  /\ last.move # NullMove
  /\ Fen(game) = StartFen
  /\ ~IsGameOver(game)

\* The material the evaluator is said to count for a piece.
ClaimedMaterial ==
  [p |-> 100, n |-> 320, b |-> 330, r |-> 500, q |-> 900, k |-> 20000]

\* The bonus it is said to add: the table at the piece's row for White, at
\* the mirrored row for Black, for pawns and knights only.
ClaimedBonus(piece, row, col) ==
  LET r == IF piece.color = "w" THEN row ELSE 7 - row
  IN CASE piece.type = "p" -> PAWN_TABLE[r + 1][col + 1]
       [] piece.type = "n" -> KNIGHT_TABLE[r + 1][col + 1]
       [] OTHER -> 0

\* sign * (material + bonus) over the occupied squares among lo..hi.
RECURSIVE ClaimedScore(_, _, _)
ClaimedScore(board, lo, hi) ==
  IF lo > hi THEN 0
  ELSE IF lo < hi
       THEN ClaimedScore(board, lo, (lo + hi) \div 2)
            + ClaimedScore(board, (lo + hi) \div 2 + 1, hi)
       ELSE IF board[lo] = NoPiece THEN 0
            ELSE (IF board[lo].color = "w" THEN 1 ELSE -1)
                 * (ClaimedMaterial[board[lo].type] + ClaimedBonus(board[lo], Row(lo), Col(lo)))

\* C25: in a position that is not over, the evaluator's score is the sum
\* over the occupied squares of sign * (material + bonus).
ScoreIsSignedSum == ~IsGameOver(game) => evaluateBoard(game) = ClaimedScore(game.board, 0, 63)

\* C25's case: a game in progress with a rook made by promotion, or with a
\* knight off its first square, and a score that is not 0.
UnevenBoardScored ==
  /\ ~IsGameOver(game)
  /\ last.op = "makeMove"
  /\ last.move # NullMove
  /\ last.move.promotion = "r" \/ last.move.piece = "n"
  /\ evaluateBoard(game) # 0


(* ------------------------------------------------ the configuration's claims *)

\* The move a search of g to the given depth returns, its shuffle seeded with seed.
MoveAtDepth(g, seed, depth) == bestOf(g, shuffleArray(LegalMoves(g), seed), depth).move

\* C26: setDifficulty and setPlayerColor leave the state that getState returns
\* as it was (position, turn, history, captures, flags), and the getBestMove
\* that follows setDifficulty(d) searches to the depth of d.
SettersOnlyConfigure ==
  [][/\ last'.op \in {"setDifficulty", "setPlayerColor"} =>
          \E before \in {getState(game)}, after \in {getState(game')} : before = after
     /\ last.op = "setDifficulty" /\ last'.op = "getBestMove" =>
          last'.move = MoveAtDepth(game, last'.seed, getSearchDepth(last.value))]_vars

\* setDifficulty("hard") has been called on a new engine, in a position where
\* the search returns another move three plies deep than two plies deep.
HardSetWhereItMatters ==
  /\ last.op = "setDifficulty"
  /\ last.value = "hard"
  /\ MoveAtDepth(game, 0, 3) # MoveAtDepth(game, 0, 2)

\* The depths the difficulties are said to search to.
ClaimedDepth(d) ==
  CASE d = "easy" -> 1
    [] d = "medium" -> 2
    [] d = "hard" -> 3

\* C27: getBestMove searches 1 ply at easy, 2 plies at medium and 3 plies at
\* hard; a new engine is at medium, and only setDifficulty changes the
\* difficulty, so that an engine whose difficulty was never set searches 2 plies.
DepthByDifficulty ==
  /\ difficulty = "medium"
  /\ [][/\ difficulty' # difficulty => last'.op = "setDifficulty"
        /\ last'.op = "getBestMove" =>
             /\ getSearchDepth(difficulty) = ClaimedDepth(difficulty)
             /\ last'.move = MoveAtDepth(game, last'.seed, ClaimedDepth(difficulty))]_vars

\* A search at medium has returned the move found two plies deep, where one
\* ply deep or three plies deep the search returns another move.
MediumSearchedTwoPlies ==
  /\ last.op = "getBestMove"
  /\ difficulty = "medium"
  /\ last.move = MoveAtDepth(game, last.seed, 2)
  /\ \/ last.move # MoveAtDepth(game, last.seed, 1)
     \/ last.move # MoveAtDepth(game, last.seed, 3)


(* --------------------------------------------------- the resignation's claims *)

\* C29: a confirmed resignation leaves the engine's game, the state getState
\* returns (position, turn, moveHistory, capturedPieces, terminal flags) and
\* the state shown as they were, and a state shown as over is a checkmate, a
\* stalemate or a draw.
ResignIsNoEngineState ==
  /\ [](ui.gameState.isGameOver =>
          ui.gameState.isCheckmate \/ ui.gameState.isStalemate \/ ui.gameState.isDraw)
  /\ [][last'.op = "resign" =>
          /\ game' = game
          /\ ui'.gameState = ui.gameState
          /\ \E before \in {getState(game)}, after \in {getState(game')} : before = after]_vars

\* A resignation has been confirmed in a game with moves played.
ResignedMidGame ==
  /\ last.op = "resign"
  /\ ui.gameState.moveHistory # <<>>
  /\ ~ui.gameState.isGameOver

\* C30: the step that follows a confirmed resignation applies no move to the
\* game, neither the human's nor the computer's.
NoMoveAfterResign ==
  [][last.op = "resign" =>
       ~(last'.op \in {"makeMove", "makeComputerMove"} /\ last'.move # NullMove)]_vars


(* ------------------------------------------------- the computer's claims *)

\* C31: against the computer, every move that makeComputerMove applies is a
\* move of the side opposite to playerColor.
ComputerMovesOwnColour ==
  [][ui.mode = "pvc" /\ last'.op = "makeComputerMove" /\ last'.move # NullMove =>
       last'.move.color # playerColor]_vars


\* C32: against the computer, whenever the game is not over and the side to
\* move is the computer's, a computer move is waiting for its timer.
ComputerMovePending ==
  ui.mode = "pvc" /\ ~ui.gameState.isGameOver /\ ui.gameState.turn # playerColor =>
    ui.pending > 0


\* C33: against the computer, after an Undo that took a move back the side
\* to move is playerColor.
UndoReturnsToPlayer ==
  [][ui.mode = "pvc" /\ last'.op = "undoMove" /\ last'.move # NullMove =>
       ui'.gameState.turn = playerColor]_vars


\* C34: makeComputerMove is started only when no earlier makeComputerMove is
\* still waiting to apply its move.
OneRequestAtATime == [][ui'.pending > ui.pending => ui.pending = 0]_vars


\* C35: while a computer move is waiting, no move of the human, no Undo and
\* no New Game changes the engine's game.
SessionKeptWhilePending ==
  [][ui.pending > 0 /\ last'.op \in {"makeMove", "undoMove", "reset"} => game' = game]_vars


(* ---------------------------------------------------- the search's depth *)

\* C36: a search stops where it should. In a position where the game is over
\* minimax returns the evaluator's score at every depth without making a
\* move; getBestMove never takes the game more than the difficulty's depth
\* of moves beyond the position it was called in; and it leaves the game
\* with the history it found, every move made being taken back once.
SearchStaysWithinDepth ==
  /\ IsGameOver(game) =>
       \A depth \in 0..3 :
         \E r \in {minimax(game, depth, -Infinity, Infinity, game.turn = "w")} :
           /\ r.value = evaluateBoard(game)
           /\ r.deepest = Len(game.history)
           /\ r.game = game
  /\ \A seed \in 0..MaxSeed :
       \E r \in {getBestMove(game, difficulty, seed)} :
         /\ r.deepest <= Len(game.history) + getSearchDepth(difficulty)
         /\ r.game.history = game.history

\* At hard a search has gone three moves beyond a position reached by a move
\* and has come back to it.
SearchedThreeDeep ==
  /\ last.op = "getBestMove"
  /\ difficulty = "hard"
  /\ game.history # <<>>
  /\ getBestMove(game, difficulty, last.seed).deepest = Len(game.history) + 3


(* ----------------------------------------------- the evaluator's symmetry *)

\* The square s reflected to row 7 - row, same column.
MirrorSquare(s) == IF s = NoSquare THEN NoSquare ELSE Sq(7 - Row(s), Col(s))

\* The piece with its colour swapped.
SwapPiece(p) == IF p = NoPiece THEN NoPiece ELSE Pc(p.type, swapColor(p.color))

\* The position of g with every piece reflected and of the other colour, the
\* other side to move, and the castling rights and en-passant square
\* reflected with it.
Mirrored(g) ==
  GameOfFen([board |-> [s \in Squares |-> SwapPiece(g.board[MirrorSquare(s)])],
             turn |-> swapColor(g.turn),
             castling |-> [c \in Colors |-> g.castling[swapColor(c)]],
             epSquare |-> MirrorSquare(g.epSquare),
             halfMoves |-> g.halfMoves,
             moveNumber |-> g.moveNumber])

\* C37: in a position that is not over, the reflected position with the
\* colours swapped is not over either and scores the negative of the
\* position's score.
MirrorNegatesScore ==
  ~IsGameOver(game) =>
    \E m \in {Mirrored(game)} :
      /\ ~IsGameOver(m)
      /\ evaluateBoard(m) = -evaluateBoard(game)

\* A game in progress with a pawn or a knight moved last, a score that is
\* not 0, and more material on one side than on the other.
LopsidedBoardMirrored ==
  /\ ~IsGameOver(game)
  /\ last.op = "makeMove"
  /\ last.move # NullMove
  /\ last.move.piece \in {"p", "n"}
  /\ evaluateBoard(game) # 0
  /\ Cardinality({s \in Squares : game.board[s] # NoPiece /\ game.board[s].color = "w"})
       # Cardinality({s \in Squares : game.board[s] # NoPiece /\ game.board[s].color = "b"})

====
